---- MODULE Spec2Model ----
(***************************************************************************)
(* Model of the roster automator (src/app.py): clean_employee_data turns a *)
(* raw table into the canonical employee list, generate_roster adds one    *)
(* shift column per date, and the main script chains the two.              *)
(*                                                                         *)
(* A string is a sequence of chunks (<<" ", "Employee ID">> is the text    *)
(* " Employee ID"), so that strip, startswith and substring tests are      *)
(* computed and not assumed.  A cell or a column label is a record         *)
(* [nan, s]: nan tells a missing value (NaN) from a string, s is str(x).   *)
(* A calendar date is its proleptic Gregorian ordinal, as in datetime.     *)
(***************************************************************************)
EXTENDS Integers, Sequences, FiniteSets, TLC

VARIABLES pc, uploaded_file, start_date, num_days, df_raw, df_clean,
          roster_df, excel_data, st_error

vars == <<pc, uploaded_file, start_date, num_days, df_raw, df_clean,
          roster_df, excel_data, st_error>>

(***************************************************************************)
(* Values                                                                  *)
(***************************************************************************)
NaN == [nan |-> TRUE, s |-> <<"nan">>]

Lit(t) == [nan |-> FALSE, s |-> <<t>>]

Chunks(cs) == [nan |-> FALSE, s |-> cs]

None == [columns |-> <<>>, index |-> <<>>, data |-> <<>>, none |-> TRUE]

IsNone(df) == "none" \in DOMAIN df

DataFrame(cols, idx, rows) == [columns |-> cols, index |-> idx, data |-> rows]

RangeIndex(n) == [i \in 1..n |-> i - 1]

Range(f) == {f[i] : i \in DOMAIN f}

\* a function on 1..n as the sequence value it is
AsSeq(f) == SubSeq(f, 1, Len(f))

IsSpace(c) == c = " "

RECURSIVE LStrip(_)
LStrip(cs) == IF cs # <<>> /\ IsSpace(Head(cs)) THEN LStrip(Tail(cs)) ELSE cs

RECURSIVE RStrip(_)
RStrip(cs) ==
    IF cs # <<>> /\ IsSpace(cs[Len(cs)]) THEN RStrip(SubSeq(cs, 1, Len(cs) - 1)) ELSE cs

\* str(col).strip()
Strip(cs) == RStrip(LStrip(cs))

\* col_str.startswith(t), t a single chunk
StartsWith(cs, t) == cs # <<>> /\ Head(cs) = t

\* t in text, t a single chunk
Contains(cs, t) == \E i \in DOMAIN cs : cs[i] = t

(***************************************************************************)
(* Calendar: date + timedelta(days=i), date.day, strftime                  *)
(***************************************************************************)
DaysBeforeMonth == <<0, 31, 59, 90, 120, 151, 181, 212, 243, 273, 304, 334>>

DaysInMonth == <<31, 28, 31, 30, 31, 30, 31, 31, 30, 31, 30, 31>>

IsLeap(y) == y % 4 = 0 /\ (y % 100 # 0 \/ y % 400 = 0)

DaysBeforeYear(y) == (y - 1) * 365 + (y - 1) \div 4 - (y - 1) \div 100 + (y - 1) \div 400

\* date(y, m, d).toordinal()
ToOrdinal(y, m, d) ==
    DaysBeforeYear(y) + DaysBeforeMonth[m] + (IF m > 2 /\ IsLeap(y) THEN 1 ELSE 0) + d

\* date.fromordinal(n) as [year, month, day]
FromOrdinal(n) ==
    LET n0 == n - 1
        n400 == n0 \div 146097
        r400 == n0 % 146097
        n100 == r400 \div 36524
        r100 == r400 % 36524
        n4 == r100 \div 1461
        r4 == r100 % 1461
        n1 == r4 \div 365
        r1 == r4 % 365
        year == n400 * 400 + 1 + n100 * 100 + n4 * 4 + n1
    IN  IF n1 = 4 \/ n100 = 4
        THEN [year |-> year - 1, month |-> 12, day |-> 31]
        ELSE LET leap == n1 = 3 /\ (n4 # 24 \/ n100 = 3)
                 m0 == (r1 + 50) \div 32
                 p0 == DaysBeforeMonth[m0] + (IF m0 > 2 /\ leap THEN 1 ELSE 0)
                 month == IF p0 > r1 THEN m0 - 1 ELSE m0
                 preceding ==
                     IF p0 > r1
                     THEN p0 - (DaysInMonth[month] + (IF month = 2 /\ leap THEN 1 ELSE 0))
                     ELSE p0
             IN  [year |-> year, month |-> month, day |-> r1 - preceding + 1]

\* start_date + timedelta(days=i)
AddDays(date, i) == date + i

\* date.weekday(): Monday is 0
Weekday(date) == (date + 6) % 7

\* date.strftime('%A')
DayName(date) ==
    <<"Monday", "Tuesday", "Wednesday", "Thursday", "Friday", "Saturday", "Sunday">>[Weekday(date) + 1]

\* day_name[:3]
First3(name) ==
    CASE name = "Monday" -> "Mon"
      [] name = "Tuesday" -> "Tue"
      [] name = "Wednesday" -> "Wed"
      [] name = "Thursday" -> "Thu"
      [] name = "Friday" -> "Fri"
      [] name = "Saturday" -> "Sat"
      [] name = "Sunday" -> "Sun"

\* date.day
DayOfMonth(date) == FromOrdinal(date).day

\* date.strftime('%d-%b'): two-digit day, abbreviated month, no year
StrfDayMonth(date) ==
    LET d == FromOrdinal(date)
        dd == IF d.day < 10 THEN <<"0", ToString(d.day)>> ELSE <<ToString(d.day)>>
        mon == <<"Jan", "Feb", "Mar", "Apr", "May", "Jun",
                 "Jul", "Aug", "Sep", "Oct", "Nov", "Dec">>[d.month]
    IN  dd \o <<"-", mon>>

\* column_name = f"{day_name[:3]} {date.strftime('%d-%b')}"
ColumnName(date) == Chunks(<<First3(DayName(date)), " ">> \o StrfDayMonth(date))

(***************************************************************************)
(* generate_roster                                                         *)
(***************************************************************************)
\* positions of the columns labelled name
ColPos(df, name) == {c \in DOMAIN df.columns : df.columns[c] = name}

\* roster_df[column_name] = value: a new last column, or every cell of the
\* column that already carries the label
SetItem(df, name, value) ==
    LET pos == ColPos(df, name)
    IN  IF pos = {}
        THEN [df EXCEPT !.columns = Append(@, name),
                        !.data = AsSeq([i \in DOMAIN @ |-> Append(@[i], value)])]
        ELSE [df EXCEPT !.data = AsSeq([i \in DOMAIN @ |->
                                    AsSeq([c \in DOMAIN @[i] |->
                                       IF c \in pos THEN value ELSE @[i][c]])])]

\* mutant: the row parity is not read, odd rows are off on the weekend too
ShiftFor_Slip(idx, date) ==
    IF DayName(date) \in {"Saturday", "Sunday"}
    THEN Lit("WO")
    ELSE IF DayOfMonth(date) % 2 = 0 THEN Lit("Day") ELSE Lit("Night")

\* the label written for row label idx on a date (lines 162-178)
ShiftFor(idx, date) ==
    LET is_even_row == idx % 2 = 0
        day_name == DayName(date)
        day_of_month == DayOfMonth(date)
    IN  IF is_even_row
        THEN IF day_name \in {"Saturday", "Sunday"}
             THEN Lit("WO")
             ELSE IF day_of_month % 2 = 0 THEN Lit("Day") ELSE Lit("Night")
        ELSE IF day_name \in {"Tuesday", "Wednesday"}
             THEN Lit("WO")
             ELSE IF day_of_month % 2 = 0 THEN Lit("Day") ELSE Lit("Night")

\* for idx in roster_df.index: roster_df.at[idx, column_name] = ...
AssignShifts(df, name, date) ==
    LET pos == ColPos(df, name)
    IN  [df EXCEPT !.data = AsSeq([i \in DOMAIN @ |->
                               AsSeq([c \in DOMAIN @[i] |->
                                  IF c \in pos
                                  THEN ShiftFor(df.index[i], date)
                                  ELSE @[i][c]])])]

\* date_range = [start_date + timedelta(days=i) for i in range(num_days)]
DateRange(start, n) == [k \in 1..n |-> AddDays(start, k - 1)]

\* one pass of the loop body for a date (lines 149-178)
DateStep(df, date) ==
    LET name == ColumnName(date)
    IN  AssignShifts(SetItem(df, name, Lit("")), name, date)

\* for date in date_range: the passes lo..hi in order, the first half before
\* the second (the test on first is always true: it makes the first half's
\* frame a value before the second half starts from it)
RECURSIVE DateLoop(_, _, _, _)
DateLoop(df, dates, lo, hi) ==
    IF lo > hi
    THEN df
    ELSE IF lo = hi
         THEN DateStep(df, dates[lo])
         ELSE LET mid == (lo + hi) \div 2
                  first == DateLoop(df, dates, lo, mid)
              IN  IF Len(first.columns) >= 0
                  THEN DateLoop(first, dates, mid + 1, hi)
                  ELSE first

generate_roster(employee_df, start, n) ==
    LET dates == DateRange(start, n)
    IN  DateLoop(employee_df, dates, 1, Len(dates))

(***************************************************************************)
(* clean_employee_data                                                     *)
(***************************************************************************)
\* line 87: 'Employee ID' in df.iloc[0].values or 'Employee ID' in str(df.iloc[0].values)
HasHeaderRow(df) ==
    LET row0 == df.data[1]
    IN  \/ \E c \in DOMAIN row0 : row0[c] = Lit("Employee ID")
        \/ \E c \in DOMAIN row0 : Contains(row0[c].s, "Employee ID")

\* lines 89-91: the first row becomes the labels of a new frame without it
PromoteHeader(df) ==
    DataFrame(df.data[1], RangeIndex(Len(df.data) - 1), Tail(df.data))

\* lines 96-99: the test a label passes to be kept
IsKept(col) ==
    LET col_str == Strip(col.s)
    IN  /\ col_str \notin {<<"2">>, <<"nan">>, <<"Unnamed">>}
        /\ ~StartsWith(col_str, "Unnamed:")
        /\ col_str \in {<<"Employee ID">>, <<"NAME">>, <<"Department">>,
                        <<"User ID">>, <<"Status">>, <<"WINS">>}

\* lines 94-100: the kept labels, as they stand in the frame (not stripped)
ColumnsToKeep(df) == SelectSeq(df.columns, IsKept)

\* line 106: the six positional labels followed by the labels past the sixth
PositionalLabels(df) ==
    <<Lit("Employee ID"), Lit("User ID"), Lit("NAME"),
      Lit("Status"), Lit("Department"), Lit("WINS")>>
        \o SubSeq(df.columns, 7, Len(df.columns))

\* df[columns_to_keep]: for each label asked, every column that carries it
SelectColumns(df, keep) ==
    LET RECURSIVE Pick(_)
        Pick(k) ==
            IF k > Len(keep)
            THEN <<>>
            ELSE SelectSeq([c \in DOMAIN df.columns |-> c],
                           LAMBDA c : df.columns[c] = keep[k]) \o Pick(k + 1)
        cs == Pick(1)
    IN  DataFrame([j \in DOMAIN cs |-> df.columns[cs[j]]],
                  df.index,
                  [i \in DOMAIN df.data |-> [j \in DOMAIN cs |-> df.data[i][cs[j]]]])

\* df.iloc[:, :3]
FirstThree(df) ==
    LET n == IF Len(df.columns) < 3 THEN Len(df.columns) ELSE 3
    IN  DataFrame(SubSeq(df.columns, 1, n),
                  df.index,
                  [i \in DOMAIN df.data |-> SubSeq(df.data[i], 1, n)])

\* lines 86-115: the working frame df_clean, or the exception raised on the
\* way; caller is the caller's frame as these lines leave it (line 106 sets
\* the labels of the object df names, which is the caller's unless line 90
\* has rebound df)
Resolve(df) ==
    IF Len(df.data) = 0
    THEN [raised |-> "IndexError", df_clean |-> None, caller |-> df]
    ELSE LET repaired == HasHeaderRow(df)
             df1 == IF repaired THEN PromoteHeader(df) ELSE df
             kept == ColumnsToKeep(df1)
             positional == kept = <<>> /\ Len(df1.columns) >= 3
             labels == PositionalLabels(df1)
         IN  IF positional /\ Len(labels) # Len(df1.columns)
             THEN [raised |-> "ValueError", df_clean |-> None, caller |-> df]
             ELSE LET df2 == IF positional THEN [df1 EXCEPT !.columns = labels] ELSE df1
                      columns_to_keep ==
                          IF positional
                          THEN <<Lit("Employee ID"), Lit("NAME"), Lit("Department")>>
                          ELSE kept
                      caller == IF repaired THEN df ELSE df2
                  IN  IF columns_to_keep # <<>>
                      THEN [raised |-> "", df_clean |-> SelectColumns(df2, columns_to_keep),
                            caller |-> caller]
                      ELSE IF Len(FirstThree(df2).columns) # 3
                           THEN [raised |-> "ValueError", df_clean |-> None, caller |-> caller]
                           ELSE [raised |-> "",
                                 df_clean |-> [FirstThree(df2) EXCEPT !.columns =
                                     <<Lit("Employee ID"), Lit("NAME"), Lit("Department")>>],
                                 caller |-> caller]

\* mutant: only 'Employee ID' is required
MissingRequired_OnlyFirst(df) ==
    SelectSeq(<<Lit("Employee ID")>>, LAMBDA col : ColPos(df, col) = {})

\* lines 118-122: the required labels absent from the frame, in the order tested
MissingRequired(df) ==
    SelectSeq(<<Lit("Employee ID"), Lit("NAME")>>, LAMBDA col : ColPos(df, col) = {})

\* pd.isna
IsNA(x) == x.nan

\* the frame without the rows whose cells in the columns cs are all missing
\* (how = "all") or are missing in one of them (how = "any"); the rows left
\* keep their index labels
DropRows(df, cs, how) ==
    LET Dropped(i) ==
            IF how = "all"
            THEN \A c \in cs : IsNA(df.data[i][c])
            ELSE \E c \in cs : IsNA(df.data[i][c])
        keep == SelectSeq([i \in DOMAIN df.data |-> i], LAMBDA i : ~Dropped(i))
    IN  DataFrame(df.columns,
                  [j \in DOMAIN keep |-> df.index[keep[j]]],
                  [j \in DOMAIN keep |-> df.data[keep[j]]])

\* mutant: how='any'
DropNA_Any(df, subset, how) ==
    DropRows(df, UNION {ColPos(df, subset[k]) : k \in DOMAIN subset}, "any")

\* mutant: the subset is ignored, every column counts
DropNA_NoSubset(df, subset, how) == DropRows(df, DOMAIN df.columns, how)

\* df.dropna(subset=subset, how=how)
DropNA(df, subset, how) ==
    DropRows(df, UNION {ColPos(df, subset[k]) : k \in DOMAIN subset}, how)

\* mutant: the index is left as dropna left it
ResetIndex_Keep(df) == df

\* df.reset_index(drop=True)
ResetIndex(df) == [df EXCEPT !.index = RangeIndex(Len(df.data))]

\* lines 124-126
AddDepartment(df) ==
    IF ColPos(df, Lit("Department")) = {}
    THEN SetItem(df, Lit("Department"), Lit("Inbound"))
    ELSE df

\* the frame of lines 124-126, before the rows are filtered
WithDepartment(df) == AddDepartment(Resolve(df).df_clean)

\* the whole function: what it returns (ret, None on the error path), what it
\* reports with st.error, the exception it lets through, and the caller's frame
clean_employee_data(df) ==
    LET r == Resolve(df)
    IN  IF r.raised # ""
        THEN [raised |-> r.raised, ret |-> None, error |-> <<>>, caller |-> r.caller]
        ELSE IF MissingRequired(r.df_clean) # <<>>
             THEN [raised |-> "", ret |-> None,
                   error |-> <<"Missing required column: ", Head(MissingRequired(r.df_clean)).s[1]>>,
                   caller |-> r.caller]
             ELSE [raised |-> "",
                   ret |-> ResetIndex(DropNA(AddDepartment(r.df_clean),
                                             <<Lit("Employee ID"), Lit("NAME")>>, "all")),
                   error |-> <<>>,
                   caller |-> r.caller]

\* style_excel, df.to_excel(index=False): the sheet's rows, the labels first
\* (the cell styling is not modelled)
style_excel(df) == <<df.columns>> \o df.data

(***************************************************************************)
(* Inputs                                                                  *)
(***************************************************************************)
MaxRows == 2

MaxHorizon == 33

NumDaysDefault == 30

EID == Lit("Employee ID")

NAME == Lit("NAME")

DEPT == Lit("Department")

\* the value of raw data row r, column c
Cell(r, c) == Chunks(<<"v", ToString(r), ToString(c)>>)

\* the column labels a file declares
Headers ==
    { <<EID, NAME>>,
      <<NAME, DEPT, EID>>,
      <<EID, Lit("User ID"), NAME, Lit("Status"), DEPT, Lit("WINS")>>,
      <<Lit("2"), EID, Chunks(<<"Unnamed:", " 2">>), NAME>>,
      <<Chunks(<<" ", "Employee ID">>), Chunks(<<"NAME", " ">>)>>,
      <<EID, DEPT>>,
      <<NAME>>,
      <<Lit("a"), Lit("b")>>,
      <<Lit("a"), Lit("b"), Lit("c")>>,
      <<Lit("a"), Lit("b"), Lit("c"), Lit("d")>>,
      <<Lit("a"), Lit("b"), Lit("c"), Lit("d"), Lit("e")>>,
      <<Lit("a"), Lit("b"), Lit("c"), Lit("d"), Lit("e"), Lit("f")>>,
      <<Lit("a"), Lit("b"), Lit("c"), Lit("d"), Lit("e"), Lit("f"), Lit("g")>>,
      <<Chunks(<<"Unnamed:", " 0">>), Chunks(<<"Unnamed:", " 1">>), Chunks(<<"Unnamed:", " 2">>)>> }

\* a first data row that holds the real labels (the sheet has a banner row
\* above them), or that only mentions 'Employee ID' inside a longer text
HeaderRows(n) ==
    {h \in Headers : Len(h) = n /\ HasHeaderRow(DataFrame(h, <<0>>, <<h>>))}
        \cup {[c \in 1..n |-> IF c = 1 THEN Chunks(<<"Employee ID", " No">>)
                              ELSE IF c = 2 THEN NaN ELSE Cell(0, c)]}

\* a data row: kind 0 has every cell, kind c in 1..n only the cell of column
\* c, kind n+1 none
DataRow(n, r, kind) ==
    [c \in 1..n |-> IF kind = 0 \/ kind = c THEN Cell(r, c) ELSE NaN]

RowKinds(n) == UNION {[1..m -> 0..(n + 1)] : m \in 0..MaxRows}

\* pd.read_csv / pd.read_excel of the file: labels, a RangeIndex, the rows
Table(h, first, kinds) ==
    LET rows == first \o [r \in DOMAIN kinds |-> DataRow(Len(h), r, kinds[r])]
    IN  DataFrame(h, RangeIndex(Len(rows)), rows)

RawTables ==
    UNION {{Table(h, first, kinds) :
              first \in {<<>>} \cup {<<x>> : x \in HeaderRows(Len(h))},
              kinds \in RowKinds(Len(h))} : h \in Headers}

\* a file pandas cannot decode
Unreadable == [unreadable |-> TRUE]

Files == RawTables \cup {Unreadable}

\* 2024-02-27 (leap February), 2023-02-26, 2024-03-01, 2024-12-29 (year end)
StartDates ==
    {ToOrdinal(2024, 2, 27), ToOrdinal(2023, 2, 26), ToOrdinal(2024, 3, 1),
     ToOrdinal(2024, 12, 29)}

(***************************************************************************)
(* The main script (lines 249-351), one action per stage                   *)
(***************************************************************************)
Init ==
    /\ pc = "idle"
    /\ uploaded_file = None
    /\ start_date = 0
    /\ num_days = 0
    /\ df_raw = None
    /\ df_clean = None
    /\ roster_df = None
    /\ excel_data = <<>>
    /\ st_error = <<>>

\* lines 49-65: the sidebar's file and start date
Upload ==
    /\ pc = "idle"
    /\ \E f \in Files, d \in StartDates :
          /\ uploaded_file' = f
          /\ start_date' = d
    /\ pc' = "uploaded"
    /\ UNCHANGED <<num_days, df_raw, df_clean, roster_df, excel_data, st_error>>

\* lines 252-257, and the except of lines 349-351 when the file cannot be read
ReadFile ==
    /\ pc = "uploaded"
    /\ IF uploaded_file = Unreadable
       THEN /\ pc' = "failed"
            /\ st_error' = Append(st_error, <<"Error processing file: ", "decode">>)
            /\ UNCHANGED df_raw
       ELSE /\ pc' = "read"
            /\ df_raw' = uploaded_file
            /\ UNCHANGED st_error
    /\ UNCHANGED <<uploaded_file, start_date, num_days, df_clean, roster_df, excel_data>>

\* line 261, and the except of lines 349-351 when the call raises
CleanData ==
    /\ pc = "read"
    /\ LET r == clean_employee_data(df_raw)
       IN  /\ df_raw' = r.caller
           /\ IF r.raised # ""
              THEN /\ pc' = "failed"
                   /\ st_error' = Append(st_error, <<"Error processing file: ", r.raised>>)
                   /\ UNCHANGED df_clean
              ELSE /\ pc' = "cleaned"
                   /\ df_clean' = r.ret
                   /\ st_error' = IF r.error = <<>> THEN st_error ELSE Append(st_error, r.error)
    /\ UNCHANGED <<uploaded_file, start_date, num_days, roster_df, excel_data>>

\* mutant: the None test is left out
CanGenerate_NoNoneTest(df) == IsNone(df) \/ Len(df.data) > 0

\* line 263: df_clean is not None and len(df_clean) > 0
CanGenerate(df) == ~IsNone(df) /\ Len(df.data) > 0

\* lines 263-278
GenerateRoster ==
    /\ pc = "cleaned"
    /\ CanGenerate(df_clean)
    /\ num_days' = NumDaysDefault
    /\ roster_df' = generate_roster(df_clean, start_date, NumDaysDefault)
    /\ pc' = "generated"
    /\ UNCHANGED <<uploaded_file, start_date, df_raw, df_clean, excel_data, st_error>>

\* lines 346-347
RejectFile ==
    /\ pc = "cleaned"
    /\ ~CanGenerate(df_clean)
    /\ st_error' = Append(st_error, <<"Could not process the uploaded file. Please check the file format.">>)
    /\ pc' = "failed"
    /\ UNCHANGED <<uploaded_file, start_date, num_days, df_raw, df_clean, roster_df, excel_data>>

\* lines 323-341
Export ==
    /\ pc = "generated"
    /\ excel_data' = style_excel(roster_df)
    /\ pc' = "exported"
    /\ UNCHANGED <<uploaded_file, start_date, num_days, df_raw, df_clean, roster_df, st_error>>

\* the script runs again from the top for the next upload
Rerun ==
    /\ pc \in {"exported", "failed"}
    /\ pc' = "idle"
    /\ uploaded_file' = None
    /\ start_date' = 0
    /\ num_days' = 0
    /\ df_raw' = None
    /\ df_clean' = None
    /\ roster_df' = None
    /\ excel_data' = <<>>
    /\ st_error' = <<>>

Next == Upload \/ ReadFile \/ CleanData \/ GenerateRoster \/ RejectFile \/ Export \/ Rerun

Spec == Init /\ [][Next]_vars

(***************************************************************************)
(* generate_roster called on its own, over employee lists, start dates and *)
(* horizons                                                                *)
(***************************************************************************)
MaxEmployees == 3

\* canonical employee lists: what clean_employee_data returns for tables of
\* 1..MaxEmployees rows that are all complete (kind 0) or all blank
EmployeeLists ==
    UNION {{clean_employee_data(Table(h, <<>>, [r \in 1..m |-> k])).ret :
              m \in 1..MaxEmployees, k \in {0, Len(h) + 1}} :
           h \in {<<EID, NAME>>, <<NAME, DEPT, EID>>}}

Horizons == (-1)..MaxHorizon

\* from 2019-03-01 the 1828th day, 2024-03-01, is again a Friday 1 March
LongInputs == {<<ToOrdinal(2019, 3, 1), h>> : h \in {1827, 1828}}

GenInputs == (StartDates \X Horizons) \cup LongInputs

InitGen ==
    /\ pc = "call"
    /\ df_clean \in EmployeeLists
    /\ \E in \in GenInputs : start_date = in[1] /\ num_days = in[2]
    /\ uploaded_file = None
    /\ df_raw = None
    /\ roster_df = None
    /\ excel_data = <<>>
    /\ st_error = <<>>

CallGenerate ==
    /\ pc = "call"
    /\ roster_df' = generate_roster(df_clean, start_date, num_days)
    /\ pc' = "returned"
    /\ UNCHANGED <<uploaded_file, start_date, num_days, df_raw, df_clean, excel_data, st_error>>

NextGen == CallGenerate

SpecGen == InitGen /\ [][NextGen]_vars

(***************************************************************************)
(* Properties                                                              *)
(***************************************************************************)
\* the label the rule gives position idx on a date: week-off by row parity
\* and weekday, else the shift by the parity of the date's own day of month
RuleLabel(idx, date) ==
    LET wd == Weekday(date)
    IN  IF (idx % 2 = 0 /\ wd \in {5, 6}) \/ (idx % 2 = 1 /\ wd \in {1, 2})
        THEN "WO"
        ELSE IF FromOrdinal(date).day % 2 = 0 THEN "Day" ELSE "Night"

\* C1: in the grid generate_roster returns, the cell of the employee at
\* position idx under the column of each date of the horizon holds the
\* rule's label (WO on Saturday/Sunday for even idx, on Tuesday/Wednesday
\* for odd idx, else Day on an even day of month and Night on an odd one),
\* and no date cell holds anything else
C1_ShiftLabels ==
    pc = "returned" =>
        /\ \A k \in 0..(num_days - 1) :
              LET date == start_date + k
                  pos == ColPos(roster_df, ColumnName(date))
              IN  /\ pos # {}
                  /\ \A i \in DOMAIN roster_df.data : \A c \in pos :
                        roster_df.data[i][c] = Lit(RuleLabel(i - 1, date))
        /\ \A i \in DOMAIN roster_df.data :
              \A c \in (Len(df_clean.columns) + 1)..Len(roster_df.columns) :
                 roster_df.data[i][c] \in {Lit("WO"), Lit("Day"), Lit("Night")}

\* C1 witness: a grid of two or more employees whose horizon crosses a month
\* boundary, with an odd row off on a Tuesday and a Day cell in the new month
C1_Witness ==
    /\ pc = "returned"
    /\ Len(roster_df.data) >= 2
    /\ num_days >= 7
    /\ \E k \in 0..(num_days - 1) :
          /\ Weekday(start_date + k) = 1
          /\ \A c \in ColPos(roster_df, ColumnName(start_date + k)) :
                roster_df.data[2][c] = Lit("WO") /\ roster_df.data[1][c] # Lit("WO")
    /\ \E k \in 0..(num_days - 1) :
          /\ FromOrdinal(start_date + k).month # FromOrdinal(start_date).month
          /\ \A c \in ColPos(roster_df, ColumnName(start_date + k)) :
                roster_df.data[1][c] = Lit("Day")

Max0(n) == IF n < 0 THEN 0 ELSE n

\* C2: the grid generate_roster returns has the employee list's rows in the
\* same order, and after the employee columns exactly one column per day of
\* the horizon, for startDate, startDate+1, ... in ascending order (none
\* when the horizon is zero or negative)
C2_OneCellPerDay ==
    pc = "returned" =>
        LET n == Len(df_clean.columns)
        IN  /\ roster_df.index = df_clean.index
            /\ Len(roster_df.data) = Len(df_clean.data)
            /\ \A i \in DOMAIN df_clean.data :
                  SubSeq(roster_df.data[i], 1, n) = df_clean.data[i]
            /\ Len(roster_df.columns) = n + Max0(num_days)
            /\ \A i \in DOMAIN roster_df.data :
                  Len(roster_df.data[i]) = n + Max0(num_days)
            /\ \A k \in 0..(num_days - 1) :
                  n + k + 1 \in DOMAIN roster_df.columns
                      => roster_df.columns[n + k + 1] = ColumnName(start_date + k)

\* the uploaded file is a table that clean_employee_data has been called on
\* and has returned from or raised in
CleanRaised ==
    /\ pc = "failed"
    /\ st_error # <<>>
    /\ st_error[Len(st_error)] \in {<<"Error processing file: ", "IndexError">>,
                                    <<"Error processing file: ", "ValueError">>}

CleanCalled == pc = "cleaned" \/ CleanRaised

\* C3: when the call reaches the required-field check, it reports
\* 'Missing required column: <name>' with the name of an absent required
\* label and returns None exactly when 'Employee ID' or 'NAME' is not a
\* label of the resolved frame; with both present it reports nothing
C3_MissingColumn ==
    pc = "cleaned" =>
        LET resolved == Range(Resolve(uploaded_file).df_clean.columns)
            absent == {Lit("Employee ID"), Lit("NAME")} \ resolved
        IN  IF absent # {}
            THEN /\ IsNone(df_clean)
                 /\ \E col \in absent :
                       st_error = << <<"Missing required column: ", col.s[1]>> >>
            ELSE /\ ~IsNone(df_clean)
                 /\ st_error = <<>>

\* C3 witness: a table with 'Employee ID' but no 'NAME' has ended in the error
C3_Witness ==
    /\ pc = "cleaned"
    /\ IsNone(df_clean)
    /\ st_error = << <<"Missing required column: ", "NAME">> >>
    /\ Lit("Employee ID") \in Range(uploaded_file.columns)

\* a row of frame w has 'Employee ID' or 'NAME' populated
Populated(w, row) ==
    \E c \in ColPos(w, Lit("Employee ID")) \cup ColPos(w, Lit("NAME")) : ~row[c].nan

\* C4: the rows returned are the rows of the frame before the filter that
\* have 'Employee ID' or 'NAME' populated, unchanged and in the same order;
\* a row is removed exactly when both are missing
C4_DropOnlyBlank ==
    (pc = "cleaned" /\ ~IsNone(df_clean)) =>
        LET w == WithDepartment(uploaded_file)
        IN  df_clean.data = SelectSeq(w.data, LAMBDA row : Populated(w, row))

\* C4 witness: a row with both missing was removed and a row with only
\* 'Employee ID' populated was kept
C4_Witness ==
    /\ pc = "cleaned"
    /\ ~IsNone(df_clean)
    /\ LET w == WithDepartment(uploaded_file)
       IN  /\ \E i \in DOMAIN w.data : ~Populated(w, w.data[i])
           /\ \E i \in DOMAIN df_clean.data :
                 /\ \A c \in ColPos(df_clean, Lit("NAME")) : df_clean.data[i][c].nan
                 /\ \E c \in ColPos(df_clean, Lit("Employee ID")) : ~df_clean.data[i][c].nan

\* C5 as stated: every record returned has a non-empty 'Employee ID' and a
\* non-empty 'NAME'
C5_BothNonEmpty ==
    (pc = "cleaned" /\ ~IsNone(df_clean)) =>
        \A i \in DOMAIN df_clean.data :
           /\ \A c \in ColPos(df_clean, Lit("Employee ID")) : ~df_clean.data[i][c].nan
           /\ \A c \in ColPos(df_clean, Lit("NAME")) : ~df_clean.data[i][c].nan

\* C5 amended: every record returned has a non-empty 'Employee ID' or a
\* non-empty 'NAME'
C5_OneNonEmpty ==
    (pc = "cleaned" /\ ~IsNone(df_clean)) =>
        \A i \in DOMAIN df_clean.data :
           \E c \in ColPos(df_clean, Lit("Employee ID")) \cup ColPos(df_clean, Lit("NAME")) :
              ~df_clean.data[i][c].nan

\* C5 witness: a list is returned that is shorter than the table's data rows
\* and holds a record with only 'NAME' populated
C5_Witness ==
    /\ pc = "cleaned"
    /\ ~IsNone(df_clean)
    /\ Len(df_clean.data) < Len(WithDepartment(uploaded_file).data)
    /\ \E i \in DOMAIN df_clean.data :
          /\ \A c \in ColPos(df_clean, Lit("Employee ID")) : df_clean.data[i][c].nan
          /\ \E c \in ColPos(df_clean, Lit("NAME")) : ~df_clean.data[i][c].nan

\* the table as line 95 sees it: the first row promoted when it is a header
Repaired(t) == IF HasHeaderRow(t) THEN PromoteHeader(t) ELSE t

\* no label of the table is a known name after header repair, and the table
\* has three columns or more
NoKnownLabel(t) ==
    /\ Len(t.data) > 0
    /\ ColumnsToKeep(Repaired(t)) = <<>>
    /\ Len(t.columns) >= 3

\* C6: for a table with no known label and three or more columns the call
\* succeeds, and each record's 'Employee ID', 'NAME' and 'Department' are the
\* values of the table's first, second and third columns
C6_PositionalThree ==
    (CleanCalled /\ NoKnownLabel(uploaded_file)) =>
        /\ pc = "cleaned"
        /\ ~IsNone(df_clean)
        /\ df_clean.columns = <<Lit("Employee ID"), Lit("NAME"), Lit("Department")>>
        /\ LET t == Repaired(uploaded_file)
               first3 == [i \in DOMAIN t.data |-> SubSeq(t.data[i], 1, 3)]
           IN  df_clean.data = SelectSeq(first3, LAMBDA row : ~(row[1].nan /\ row[2].nan))

\* the labels of the table, stripped, include 'Employee ID' and 'NAME'; the
\* table has a data row, and its first row does not pass for a header
KnownLabels(t) ==
    /\ Len(t.data) > 0
    /\ ~HasHeaderRow(t)
    /\ {<<"Employee ID">>, <<"NAME">>} \subseteq {Strip(t.columns[c].s) : c \in DOMAIN t.columns}

\* C7: for a table whose stripped labels include 'Employee ID' and 'NAME' the
\* call succeeds and returns exactly the columns Employee ID, NAME and
\* Department, Department being "Inbound" on every row when the table had no
\* such column, with the rows in input order
C7_KnownLabels ==
    (CleanCalled /\ KnownLabels(uploaded_file)) =>
        /\ pc = "cleaned"
        /\ ~IsNone(df_clean)
        /\ Len(df_clean.columns) = 3
        /\ Range(df_clean.columns) = {Lit("Employee ID"), Lit("NAME"), Lit("Department")}
        /\ (<<"Department">> \notin {Strip(uploaded_file.columns[c].s) : c \in DOMAIN uploaded_file.columns}
               => \A i \in DOMAIN df_clean.data :
                     \A c \in ColPos(df_clean, Lit("Department")) :
                        df_clean.data[i][c] = Lit("Inbound"))
        /\ \A i, j \in DOMAIN df_clean.data :
              i < j => \E a, b \in DOMAIN uploaded_file.data :
                          /\ a < b
                          /\ Range(df_clean.data[i]) \subseteq Range(uploaded_file.data[a]) \cup {Lit("Inbound")}
                          /\ Range(df_clean.data[j]) \subseteq Range(uploaded_file.data[b]) \cup {Lit("Inbound")}

\* a missing-column error is on display
MissingShown ==
    \E k \in DOMAIN st_error : st_error[k][1] = "Missing required column: "

\* C8: a roster exists, or is exported, only after a normalisation that
\* returned a record set with both required labels and reported nothing; a
\* normalisation that returned None is followed by an error and the end of
\* the run, with no roster and no export
C8_NoRosterAfterError ==
    /\ [](/\ (pc \in {"generated", "exported"} \/ ~IsNone(roster_df) \/ excel_data # <<>>)
             => /\ ~IsNone(df_clean)
                /\ {Lit("Employee ID"), Lit("NAME")} \subseteq Range(df_clean.columns)
                /\ st_error = <<>>
          /\ MissingShown => (pc \in {"cleaned", "failed"} /\ IsNone(roster_df) /\ excel_data = <<>>))
    /\ [][(pc = "cleaned" /\ IsNone(df_clean))
             => (pc' = "failed" /\ IsNone(roster_df') /\ excel_data' = <<>>
                   /\ Len(st_error') > Len(st_error))]_vars

\* C8 witness: a run has ended after the missing-column error, with the
\* errors shown and no roster
C8_Witness ==
    /\ pc = "failed"
    /\ MissingShown
    /\ Len(st_error) = 2
    /\ IsNone(roster_df)
    /\ excel_data = <<>>

\* C9: clean_employee_data leaves the caller's raw table as it was (labels,
\* rows, cells) on every path, and generate_roster leaves the caller's
\* employee list as it was
C9_InputsUnchanged ==
    [][/\ pc = "read" => df_raw' = df_raw
       /\ pc = "cleaned" => df_clean' = df_clean]_vars

\* the rows of the frame before the filter that the filter keeps, by position
Retained(w) == SelectSeq([i \in DOMAIN w.data |-> i], LAMBDA i : Populated(w, w.data[i]))

\* C10: the list returned carries the dense index 0..n-1, and the row at
\* position p of the roster, which is the p-th retained row of the table (the
\* promoted header and the blank rows not counted), is off on Saturday and
\* Sunday when p is even and on Tuesday and Wednesday when p is odd, whatever
\* its row number in the raw table
C10_ParityByPosition ==
    /\ (pc \in {"cleaned", "generated"} /\ ~IsNone(df_clean))
          => df_clean.index = RangeIndex(Len(df_clean.data))
    /\ pc = "generated" =>
          LET w == WithDepartment(uploaded_file)
              kept == Retained(w)
          IN  /\ Len(roster_df.data) = Len(kept)
              /\ \A p \in DOMAIN roster_df.data :
                    /\ SubSeq(roster_df.data[p], 1, Len(w.columns)) = w.data[kept[p]]
                    /\ \A k \in 0..(NumDaysDefault - 1) :
                          \A c \in ColPos(roster_df, ColumnName(start_date + k)) :
                             roster_df.data[p][c] = Lit("WO")
                                <=> Weekday(start_date + k) \in
                                       (IF (p - 1) % 2 = 0 THEN {5, 6} ELSE {1, 2})

\* C10 witness: a roster whose first employee stood in the second data row of
\* the table, behind a blank row, and is off on a Saturday
C10_Witness ==
    /\ pc = "generated"
    /\ LET w == WithDepartment(uploaded_file)
       IN  /\ Len(w.data) >= 2
           /\ ~Populated(w, w.data[1])
           /\ Populated(w, w.data[2])
           /\ roster_df.data[1][1] = w.data[2][1]
           /\ \E k \in 0..(NumDaysDefault - 1) :
                 /\ Weekday(start_date + k) = 5
                 /\ \A c \in ColPos(roster_df, ColumnName(start_date + k)) :
                       roster_df.data[1][c] = Lit("WO")

====
